---- MODULE Spec2Model ----
(***************************************************************************)
(* A model of bevy_framepace (src/src/lib.rs): the configuration context   *)
(* (update_proxy_resources, get_display_refresh_rate), the pacing context  *)
(* (the run_if condition is_enabled and the system framerate_limiter) and  *)
(* a diagnostics reader of FramePaceStats, interleaved step by step.       *)
(*                                                                         *)
(* Units.  A Duration is a whole number of ticks.  An f64 number of        *)
(* seconds is a whole number of quanta, F64Unit quanta to the tick, so     *)
(* that the gains 1.0, 0.1 and 0.0 and every sum and product the code      *)
(* forms are exact; f64 rounding error is not modelled.  Time is kept      *)
(* relative to FrameTimer.sleep_end: elapsed is sleep_end.elapsed().       *)
(***************************************************************************)
EXTENDS Integers, Sequences, FiniteSets, TLC

(* ------------------------------ bounds --------------------------------- *)
\* Capacity of the two histories (the max_frame_records argument of new).
max_frame_records == 2
\* Longest application work time of one render frame, in ticks.
MaxWork == 1
\* Longest frame-present duration reported for one frame, in ticks.
MaxPresent == 3
\* Largest overshoot of spin_sleep and of the clock reads around it.
MaxOvershoot == 1
\* Largest value of sleep_end.elapsed() at which a frame may still start.
MaxElapsed == 3
\* Number of frames add_frame_stats may record in one behaviour of
\* SpecPacing, and in one of Spec.
MaxFrames == 3
SpecFrames == 1
\* Number of times the settings or the monitors may change in one behaviour.
MaxChanges == 2
\* Number of frames recorded in one behaviour of SpecDrift.
DriftFrames == 20
\* Largest deviation, in ticks either way, of a sample that SpecSleep puts in
\* the history, and largest stored adjustment, in quanta either way.
MaxDelta == 3
MaxAdjustment == 12

(* --------------------------- program constants ------------------------- *)
\* Quanta of an f64 second per tick: the denominator of the gains.
F64Unit == 10
\* Ticks per second: the unit of a Duration.
TicksPerSecond == 12
FRAMEPACE_PID_KP == 10
FRAMEPACE_PID_KI == 1
FRAMEPACE_PID_KD == 0

(* ------------------------------ helpers -------------------------------- *)
Max(a, b) == IF a >= b THEN a ELSE b
Min(a, b) == IF a <= b THEN a ELSE b

RECURSIVE SumSeq(_)
SumSeq(s) == IF s = <<>> THEN 0 ELSE Head(s) + SumSeq(Tail(s))

SetMin(S) == CHOOSE x \in S : \A y \in S : x <= y

\* Duration::saturating_sub
saturating_sub(a, b) == IF a >= b THEN a - b ELSE 0

\* Duration::as_secs_f64: ticks to quanta.
as_secs_f64(d) == d * F64Unit

\* Duration::from_secs_f64 of a non-negative f64: quanta to ticks, rounded to
\* the nearest tick, a tie to the even tick.
from_secs_f64(x) ==
    LET q == x \div F64Unit
        r == x % F64Unit
    IN  IF 2 * r > F64Unit THEN q + 1
        ELSE IF 2 * r < F64Unit THEN q
        ELSE IF q % 2 = 0 THEN q ELSE q + 1

\* f64::clamp
clamp(x, lo, hi) == IF x < lo THEN lo ELSE IF x > hi THEN hi ELSE x

\* (gain as f64) * x, the gain a number of tenths.
GainMul(k, x) == (k * x) \div F64Unit

(* ------------------------------- Mutex --------------------------------- *)
\* A mutex is "free" or names its holder: "config", "pacing", "reader".

\* A lock() in place of a try_lock(): the caller goes on once the mutex is free.
lock_returns(lock) == lock = "free"

\* Mutex::try_lock returns at once, whoever holds the mutex.
try_lock_returns(lock) == TRUE

\* A try_lock whose Err is not told from its Ok.
try_lock_ok_Always(lock) == TRUE

\* Mutex::try_lock is Ok when the mutex is free, Err when it is held.
try_lock_ok(lock) == lock = "free"

(* ------------------------------ Limiter -------------------------------- *)
Auto == [tag |-> "Auto", t |-> 0]
Off == [tag |-> "Off", t |-> 0]
Manual(p) == [tag |-> "Manual", t |-> p]

\* Limiter::is_enabled
Limiter_is_enabled(l) == l.tag # "Off"

(* --------------------------- FramePaceStats ---------------------------- *)
\* The six mutexes of FramePaceStats, in the order add_frame_stats takes them.
StatsLocks ==
    { "last_frame_present_time", "last_app_time", "frametime_record",
      "target_delta_record", "target_delta_sum", "last_sleep_adjustment" }

\* The mutexes a public accessor takes: get_last_frame_present_time,
\* get_last_app_frametime, get_last_frame_time and get_avg_frame_time,
\* get_last_target_delta.
ReaderLocks ==
    { "last_frame_present_time", "last_app_time", "frametime_record",
      "target_delta_record" }

\* FramePaceStats::new: the state of the six fields after construction.
FramePaceStats_new ==
    [ last_frame_present_time |-> 0,
      last_app_time           |-> 0,
      frametime_record        |-> << >>,
      target_delta_record     |-> << >>,
      target_delta_sum        |-> 0,
      last_sleep_adjustment   |-> 0 ]

\* An ideal sleep that takes no account of the time spent in the application.
ideal_sleep_time_NoWork(target_frametime, time_in_app) == as_secs_f64(target_frametime)

\* target_frametime.saturating_sub(time_in_app).as_secs_f64()
ideal_sleep_time(target_frametime, time_in_app) ==
    as_secs_f64(saturating_sub(target_frametime, time_in_app))

lost_frame_time(target_frametime, time_presenting_frame) ==
    IF time_presenting_frame >= target_frametime
    THEN 0
    ELSE as_secs_f64(time_presenting_frame)

adjusted_sleep_time(target_frametime, time_presenting_frame, time_in_app, total_frametime) ==
    as_secs_f64(total_frametime) - as_secs_f64(time_in_app)
        - lost_frame_time(target_frametime, time_presenting_frame)

\* A deviation of the opposite sign: target minus actual.
delta_from_target_Flipped(target_frametime, time_presenting_frame, time_in_app, total_frametime) ==
    ideal_sleep_time(target_frametime, time_in_app)
        - adjusted_sleep_time(target_frametime, time_presenting_frame, time_in_app, total_frametime)

delta_from_target(target_frametime, time_presenting_frame, time_in_app, total_frametime) ==
    adjusted_sleep_time(target_frametime, time_presenting_frame, time_in_app, total_frametime)
        - ideal_sleep_time(target_frametime, time_in_app)

\* The panic of add_frame_stats.
add_frame_stats_panics(target_frametime, time_presenting_frame, time_in_app, total_frametime) ==
    adjusted_sleep_time(target_frametime, time_presenting_frame, time_in_app, total_frametime) < 0

\* A clean-up of the frame times that evicts nothing.
CleanFrametimes_None(rec) == rec

\* while frametime_record.len() > max_frame_records { pop_front }
RECURSIVE CleanFrametimes(_)
CleanFrametimes(rec) ==
    IF Len(rec) > max_frame_records THEN CleanFrametimes(Tail(rec)) ELSE rec

\* A clean-up that pops the sample and leaves the sum as it was.
EvictedFromSum_Kept(front) == 0

\* The value the second loop takes off target_delta_sum for one evicted sample.
EvictedFromSum(front) == front

\* A clean-up of the deviations that evicts nothing.
CleanDeltas_None(rs) == rs

\* while target_delta_record.len() > max_frame_records
\*     { sum -= record[0]; pop_front }, on the pair <<record, sum>>.
RECURSIVE CleanDeltas(_)
CleanDeltas(rs) ==
    IF Len(rs[1]) > max_frame_records
    THEN CleanDeltas(<< Tail(rs[1]), rs[2] - EvictedFromSum(Head(rs[1])) >>)
    ELSE rs

\* add_frame_stats once it holds the six locks and has not panicked: the
\* fields it leaves behind.
add_frame_stats(s, target_frametime, time_presenting_frame, time_in_app, sleep_adjustment, total_frametime) ==
    LET delta == delta_from_target(target_frametime, time_presenting_frame,
                                   time_in_app, total_frametime)
        cleaned == CleanDeltas(<< Append(s.target_delta_record, delta),
                                  s.target_delta_sum + delta >>)
    IN  [ last_frame_present_time |-> time_presenting_frame,
          last_app_time           |-> time_in_app,
          frametime_record        |->
              CleanFrametimes(Append(s.frametime_record, total_frametime)),
          target_delta_record     |-> cleaned[1],
          target_delta_sum        |-> cleaned[2],
          last_sleep_adjustment   |-> sleep_adjustment ]

\* The private and public read accessors; held is the set of stats mutexes
\* another thread holds, on which try_lock fails.
get_target_delta_sum(s, held) ==
    IF "target_delta_sum" \in held THEN 0 ELSE s.target_delta_sum

get_last_target_delta(s, held) ==
    IF "target_delta_record" \in held THEN 0
    ELSE IF s.target_delta_record = << >> THEN 0
    ELSE s.target_delta_record[Len(s.target_delta_record)]

get_last_target_delta_diff(s, held) ==
    LET r == s.target_delta_record
    IN  IF "target_delta_record" \in held THEN 0
        ELSE IF Len(r) = 0 THEN 0
        ELSE IF Len(r) = 1 THEN 0 - r[1]
        ELSE r[Len(r) - 1] - r[Len(r)]

get_last_frame_present_time(s, held) ==
    IF "last_frame_present_time" \in held THEN 0 ELSE s.last_frame_present_time

get_last_app_frametime(s, held) ==
    IF "last_app_time" \in held THEN 0 ELSE s.last_app_time

get_last_frame_time(s, held) ==
    IF "frametime_record" \in held THEN 0
    ELSE IF s.frametime_record = << >> THEN 0
    ELSE s.frametime_record[Len(s.frametime_record)]

\* get_avg_frame_time: the sum of the recorded frame times over
\* max_frame_records (Duration / u32 truncates).
get_avg_frame_time(s, held) ==
    IF "frametime_record" \in held THEN 0
    ELSE IF max_frame_records = 0 THEN 0
    ELSE SumSeq(s.frametime_record) \div max_frame_records

\* An adjustment that starts from zero in every iteration: the last one is
\* not carried forward.
raw_adjustment_NoCarry(s, held) ==
    GainMul(FRAMEPACE_PID_KP, get_last_target_delta(s, held))
        + GainMul(FRAMEPACE_PID_KI, get_target_delta_sum(s, held))
        + GainMul(FRAMEPACE_PID_KD, get_last_target_delta_diff(s, held))

\* The adjustment of get_requested_sleep_duration before it is clamped.
raw_adjustment(s, held) ==
    LET last_sleep_adjustment ==
            IF "last_sleep_adjustment" \in held THEN 0 ELSE s.last_sleep_adjustment
    IN  last_sleep_adjustment
            + GainMul(FRAMEPACE_PID_KP, get_last_target_delta(s, held))
            + GainMul(FRAMEPACE_PID_KI, get_target_delta_sum(s, held))
            + GainMul(FRAMEPACE_PID_KD, get_last_target_delta_diff(s, held))

\* An adjustment that is returned as computed.
clamp_adjustment_None(adjustment, target_frametime) == adjustment

\* adjustment.clamp(0 - target, target)
clamp_adjustment(adjustment, target_frametime) ==
    clamp(adjustment, 0 - as_secs_f64(target_frametime), as_secs_f64(target_frametime))

\* A sleep that is kept from being negative and from nothing else.
clamp_sleep_NoUpper(x, target_frametime) == from_secs_f64(Max(x, 0))

\* (ideal_sleep_time - adjustment).clamp(0, target), as a Duration
clamp_sleep(x, target_frametime) ==
    from_secs_f64(clamp(x, 0, as_secs_f64(target_frametime)))

\* get_requested_sleep_duration: the pair (sleep_duration, adjustment).
get_requested_sleep_duration(s, held, target_frametime, time_in_app) ==
    LET adjustment == clamp_adjustment(raw_adjustment(s, held), target_frametime)
    IN  [ sleep_duration |->
              clamp_sleep(ideal_sleep_time(target_frametime, time_in_app) - adjustment,
                          target_frametime),
          adjustment |-> adjustment ]

(* ------------------------- FrametimeLimit resolver --------------------- *)
\* refresh_rate_millihertz of the monitors a window can be on.
RefreshRates == { 3000, 4000 }

\* The periods a user gives Limiter::Manual.
ManualPeriods == { 3 }

Limiters == { Auto, Off } \cup { Manual(p) : p \in ManualPeriods }

None == -1

\* Duration::from_secs_f64(1.0 / (millihertz as f64 / 1000.0))
frametime_of_rate(millihertz) ==
    from_secs_f64((TicksPerSecond * F64Unit * 1000) \div millihertz)

\* The refresh rate detect_frametime picks among the monitors' rates.
best_framerate(rates) == SetMin(rates)

\* detect_frametime: rates are the refresh rates of the monitors of the
\* windows; None when there is none.
detect_frametime(rates) ==
    IF rates = {} THEN None ELSE frametime_of_rate(best_framerate(rates))

\* A resolver for which Off is a period of zero.
new_frametime_OffZero(limiter, rates) ==
    CASE limiter.tag = "Auto"   -> detect_frametime(rates)
      [] limiter.tag = "Manual" -> limiter.t
      [] limiter.tag = "Off"    -> 0

\* new_frametime of get_display_refresh_rate, None where it returns early.
new_frametime(limiter, rates) ==
    CASE limiter.tag = "Auto"   -> detect_frametime(rates)
      [] limiter.tag = "Manual" -> limiter.t
      [] limiter.tag = "Off"    -> None

(* ------------------------------- state --------------------------------- *)
VARIABLES
    settings,        \* FramepaceSettings.limiter
    proxy_changed,   \* settings.is_changed() as update_proxy_resources sees it
    rate_changed,    \* settings.is_changed() as get_display_refresh_rate sees it
    winit_changed,   \* winit.is_changed() as get_display_refresh_rate sees it
    monitors,        \* refresh rates of the monitors of the windows
    proxy,           \* FramepaceSettingsProxy.limiter: [value, lock]
    limit,           \* FrametimeLimit: [value, lock]
    config_pc,       \* [proxy, rate]: where each configuration system is
    stats,           \* FramePaceStats: the six guarded fields
    reader,          \* the stats mutex the diagnostics reader holds, or "none"
    elapsed,         \* timer.sleep_end.elapsed()
    frame_present,   \* FramePresentDuration.duration
    pc,              \* where the pacing context is
    frame,           \* locals of framerate_limiter: time_spent_by_app,
                     \* sleep_duration, sleep_adjustment
    panicked,        \* add_frame_stats has panicked
    frames,          \* number of frames add_frame_stats has recorded
    changes,         \* number of changes of the settings and the monitors
    hist             \* history of the run, read by the properties only

vars ==
    << settings, proxy_changed, rate_changed, winit_changed, monitors, proxy,
       limit, config_pc, stats, reader, elapsed, frame_present, pc, frame,
       panicked, frames, changes, hist >>

config_vars == << settings, proxy_changed, rate_changed, winit_changed, monitors, config_pc >>
pacing_vars == << elapsed, frame_present, pc, frame, panicked, frames >>

NoFrame == [ time_spent_by_app |-> 0, sleep_duration |-> 0, sleep_adjustment |-> 0 ]

\* What the properties remember of the run:
\*   rate_runs, proxy_runs: the configuration ticks since the settings or
\*     the monitors last changed, counted for get_display_refresh_rate and
\*     for update_proxy_resources: 0 when the system has not run since, 1
\*     when it has, 2 when after that it has run once more and found its
\*     lock free;
\*   off_at_start: the pacing iteration under way started with settings Off
\*     and proxy_runs at 2;
\*   contended: the lock on which the last pacing iteration to try one was
\*     turned back, "none" if it took those it tried.
NoHist ==
    [ rate_runs |-> 0, proxy_runs |-> 0, off_at_start |-> FALSE, contended |-> "none" ]

Ran(n, lock_free) == IF n = 0 THEN 1 ELSE IF lock_free THEN 2 ELSE n

\* FramepacePlugin::build: the resources as inserted.
Init ==
    /\ settings = Auto
    /\ proxy_changed = TRUE
    /\ rate_changed = TRUE
    /\ winit_changed = TRUE
    /\ monitors = {}
    /\ proxy = [ value |-> Auto, lock |-> "free" ]
    /\ limit = [ value |-> 0, lock |-> "free" ]
    /\ config_pc = [ proxy |-> "idle", rate |-> "idle" ]
    /\ stats = FramePaceStats_new
    /\ reader = "none"
    /\ elapsed = 0
    /\ frame_present = 0
    /\ pc = "render"
    /\ frame = NoFrame
    /\ panicked = FALSE
    /\ frames = 0
    /\ changes = 0
    /\ hist = NoHist

(* ----------------------- configuration context ------------------------- *)
\* A system of the application writes FramepaceSettings.limiter.
UserSetLimiter(l) ==
    /\ ~panicked
    /\ config_pc = [ proxy |-> "idle", rate |-> "idle" ]
    /\ l # settings
    /\ changes < MaxChanges
    /\ changes' = changes + 1
    /\ settings' = l
    /\ proxy_changed' = TRUE
    /\ rate_changed' = TRUE
    /\ hist' = [ hist EXCEPT !.rate_runs = 0, !.proxy_runs = 0 ]
    /\ UNCHANGED << winit_changed, monitors, proxy, limit, config_pc, stats, reader >>
    /\ UNCHANGED pacing_vars

\* A window is created, closed or moved: WinitWindows changes.
MonitorsChange(rates) ==
    /\ ~panicked
    /\ config_pc.rate = "idle"
    /\ rates # monitors
    /\ changes < MaxChanges
    /\ changes' = changes + 1
    /\ monitors' = rates
    /\ winit_changed' = TRUE
    /\ hist' = [ hist EXCEPT !.rate_runs = 0 ]
    /\ UNCHANGED << settings, proxy_changed, rate_changed, proxy, limit, config_pc, stats, reader >>
    /\ UNCHANGED pacing_vars

\* update_proxy_resources up to its try_lock: it returns at once unless
\* settings changed and the lock is free.
UpdateProxyBegin ==
    /\ ~panicked
    /\ config_pc.proxy = "idle"
    /\ try_lock_returns(proxy.lock)
    /\ proxy_changed' = FALSE
    /\ IF proxy_changed /\ try_lock_ok(proxy.lock)
       THEN /\ proxy' = [ proxy EXCEPT !.lock = "config" ]
            /\ config_pc' = [ config_pc EXCEPT !.proxy = "locked" ]
            /\ hist' = hist
       ELSE /\ hist' = [ hist EXCEPT !.proxy_runs = Ran(@, try_lock_ok(proxy.lock)) ]
            /\ UNCHANGED << proxy, config_pc >>
    /\ UNCHANGED << settings, rate_changed, winit_changed, monitors, limit, stats, reader >>
    /\ UNCHANGED pacing_vars
    /\ UNCHANGED changes

\* update_proxy_resources under the lock: *limiter = settings.limiter.
UpdateProxyEnd ==
    /\ ~panicked
    /\ config_pc.proxy = "locked"
    /\ proxy' = [ value |-> settings, lock |-> "free" ]
    /\ config_pc' = [ config_pc EXCEPT !.proxy = "idle" ]
    /\ hist' = [ hist EXCEPT !.proxy_runs = Ran(@, TRUE) ]
    /\ UNCHANGED << settings, proxy_changed, rate_changed, winit_changed, monitors, limit, stats, reader >>
    /\ UNCHANGED pacing_vars
    /\ UNCHANGED changes

\* get_display_refresh_rate up to its try_lock: it returns at once unless
\* something changed, a frametime is resolved and the lock is free.
GetRateBegin ==
    /\ ~panicked
    /\ config_pc.rate = "idle"
    /\ try_lock_returns(limit.lock)
    /\ rate_changed' = FALSE
    /\ winit_changed' = FALSE
    /\ IF /\ rate_changed \/ winit_changed
          /\ new_frametime(settings, monitors) # None
          /\ try_lock_ok(limit.lock)
       THEN /\ limit' = [ limit EXCEPT !.lock = "config" ]
            /\ config_pc' = [ config_pc EXCEPT !.rate = "locked" ]
            /\ hist' = hist
       ELSE /\ hist' = [ hist EXCEPT !.rate_runs = Ran(@, try_lock_ok(limit.lock)) ]
            /\ UNCHANGED << limit, config_pc >>
    /\ UNCHANGED << settings, proxy_changed, monitors, proxy, stats, reader >>
    /\ UNCHANGED pacing_vars
    /\ UNCHANGED changes

\* get_display_refresh_rate under the lock: it writes the new frametime
\* unless the limit already holds it.
GetRateEnd ==
    /\ ~panicked
    /\ config_pc.rate = "locked"
    /\ limit' = [ value |-> IF new_frametime(settings, monitors) = limit.value
                            THEN limit.value
                            ELSE new_frametime(settings, monitors),
                  lock |-> "free" ]
    /\ config_pc' = [ config_pc EXCEPT !.rate = "idle" ]
    /\ hist' = [ hist EXCEPT !.rate_runs = Ran(@, TRUE) ]
    /\ UNCHANGED << settings, proxy_changed, rate_changed, winit_changed, monitors, proxy, stats, reader >>
    /\ UNCHANGED pacing_vars
    /\ UNCHANGED changes

(* --------------------------- pacing context ---------------------------- *)
\* The state of the stats mutex m: add_frame_stats holds all six at "record".
StatsLock(m) ==
    IF reader = m THEN "reader" ELSE IF pc = "record" THEN "pacing" ELSE "free"

\* The stats mutexes on which a try_lock of the pacing context fails.
HeldByReader == { m \in StatsLocks : ~try_lock_ok(StatsLock(m)) }

\* The render sub-app runs a frame: the application works for work ticks
\* and the frame's presentation is measured at present ticks.
RenderFrame(work, present) ==
    /\ ~panicked
    /\ pc = "render"
    /\ elapsed + work <= MaxElapsed
    /\ elapsed' = elapsed + work
    /\ frame_present' = present
    /\ pc' = "run_if"
    /\ UNCHANGED << frame, panicked, frames, proxy, limit, stats, reader, hist >>
    /\ UNCHANGED config_vars
    /\ UNCHANGED changes

\* run_if(settings.is_enabled()), the try_lock: an Err makes any() false and
\* the system is skipped.
IsEnabledBegin ==
    /\ ~panicked
    /\ pc = "run_if"
    /\ try_lock_returns(proxy.lock)
    /\ IF try_lock_ok(proxy.lock)
       THEN /\ proxy' = [ proxy EXCEPT !.lock = "pacing" ]
            /\ pc' = "is_enabled"
            /\ hist' = [ hist EXCEPT !.off_at_start =
                            /\ settings = Off
                            /\ hist.proxy_runs = 2
                            /\ config_pc.proxy = "idle",
                                     !.contended = "none" ]
       ELSE /\ pc' = "render"
            /\ hist' = [ hist EXCEPT !.off_at_start = FALSE,
                                     !.contended = "proxy" ]
            /\ proxy' = proxy
    /\ UNCHANGED << elapsed, frame_present, frame, panicked, frames, limit, stats, reader >>
    /\ UNCHANGED config_vars
    /\ UNCHANGED changes

\* run_if(settings.is_enabled()), under the lock: l.is_enabled().
IsEnabledEnd ==
    /\ ~panicked
    /\ pc = "is_enabled"
    /\ proxy' = [ proxy EXCEPT !.lock = "free" ]
    /\ pc' = IF Limiter_is_enabled(proxy.value) THEN "limiter" ELSE "render"
    /\ UNCHANGED << elapsed, frame_present, frame, panicked, frames, limit, stats, reader, hist >>
    /\ UNCHANGED config_vars
    /\ UNCHANGED changes

\* framerate_limiter up to spin_sleep: the try_lock of the limit (an Err
\* returns), time_spent_by_app and get_requested_sleep_duration.  Each of
\* the three values is computed once and bound, as a local of the function.
LimiterBegin ==
    /\ ~panicked
    /\ pc = "limiter"
    /\ try_lock_returns(limit.lock)
    /\ IF try_lock_ok(limit.lock)
       THEN \E time_spent_by_app \in { saturating_sub(elapsed, frame_present) },
               held \in { HeldByReader } :
            \E req \in { get_requested_sleep_duration(stats, held, limit.value,
                                                      time_spent_by_app) } :
                /\ limit' = [ limit EXCEPT !.lock = "pacing" ]
                /\ frame' = [ time_spent_by_app |-> time_spent_by_app,
                              sleep_duration    |-> req.sleep_duration,
                              sleep_adjustment  |-> req.adjustment ]
                /\ pc' = "sleep"
                /\ hist' = hist
       ELSE /\ pc' = "render"
            /\ hist' = [ hist EXCEPT !.contended = "limit" ]
            /\ UNCHANGED << limit, frame >>
    /\ UNCHANGED << elapsed, frame_present, panicked, frames, proxy, stats, reader >>
    /\ UNCHANGED config_vars
    /\ UNCHANGED changes

\* spin_sleep::sleep(sleep_duration) unless it is zero, the clock read after
\* it, and the six try_locks of add_frame_stats: with one of them held by the
\* reader add_frame_stats returns, and framerate_limiter resets the timer
\* and drops the limit.
LimiterSleep(overshoot) ==
    /\ ~panicked
    /\ pc = "sleep"
    /\ frame.sleep_duration = 0 => overshoot = 0
    /\ \A m \in StatsLocks : try_lock_returns(StatsLock(m))
    /\ IF HeldByReader # {}
       THEN /\ elapsed' = 0
            /\ limit' = [ limit EXCEPT !.lock = "free" ]
            /\ frame' = NoFrame
            /\ pc' = "render"
       ELSE /\ elapsed' = elapsed + frame.sleep_duration + overshoot
            /\ pc' = "record"
            /\ UNCHANGED << limit, frame >>
    /\ UNCHANGED << frame_present, panicked, frames, proxy, stats, reader, hist >>
    /\ UNCHANGED config_vars
    /\ UNCHANGED changes

\* add_frame_stats under its six locks, then timer.sleep_end = now and the
\* end of framerate_limiter, which drops the limit.
LimiterRecord ==
    /\ ~panicked
    /\ pc = "record"
    /\ IF add_frame_stats_panics(limit.value, frame_present, frame.time_spent_by_app, elapsed)
       THEN /\ panicked' = TRUE
            /\ UNCHANGED << elapsed, frame, pc, frames, limit, stats >>
       ELSE /\ stats' = add_frame_stats(stats, limit.value, frame_present,
                                        frame.time_spent_by_app,
                                        frame.sleep_adjustment, elapsed)
            /\ frames' = frames + 1
            /\ elapsed' = 0
            /\ limit' = [ limit EXCEPT !.lock = "free" ]
            /\ frame' = NoFrame
            /\ pc' = "render"
            /\ panicked' = FALSE
    /\ UNCHANGED << frame_present, proxy, reader, hist >>
    /\ UNCHANGED config_vars
    /\ UNCHANGED changes

(* ------------------------- diagnostics reader -------------------------- *)
\* A public accessor's try_lock: it fails, and the accessor returns its
\* default, while add_frame_stats holds the mutex.
ReaderLock(m) ==
    /\ ~panicked
    /\ reader = "none"
    /\ try_lock_returns(StatsLock(m))
    /\ reader' = IF try_lock_ok(StatsLock(m)) THEN m ELSE "none"
    /\ UNCHANGED << proxy, limit, stats, hist >>
    /\ UNCHANGED config_vars
    /\ UNCHANGED pacing_vars
    /\ UNCHANGED changes

\* The accessor returns and drops its guard.
ReaderUnlock ==
    /\ ~panicked
    /\ reader # "none"
    /\ reader' = "none"
    /\ UNCHANGED << proxy, limit, stats, hist >>
    /\ UNCHANGED config_vars
    /\ UNCHANGED pacing_vars
    /\ UNCHANGED changes

(* ---------------------------- specification ---------------------------- *)
\* The inputs of a frame under Spec, whose claims are about the locks: one
\* work time, one present time, and a sleep that may overshoot.
SpecWork == { 1 }
SpecPresent == { 0 }
SpecOvershoot == { 0 }

ConfigNext ==
    \/ \E l \in Limiters : UserSetLimiter(l)
    \/ \E rates \in SUBSET RefreshRates : MonitorsChange(rates)
    \/ UpdateProxyBegin
    \/ UpdateProxyEnd
    \/ GetRateBegin
    \/ GetRateEnd

ReaderNext ==
    \/ \E m \in ReaderLocks : ReaderLock(m)
    \/ ReaderUnlock

\* The contexts running as threads of their own (pipelined rendering).
Next ==
    \/ ConfigNext
    \/ /\ frames < SpecFrames
       /\ \E work \in SpecWork, present \in SpecPresent : RenderFrame(work, present)
    \/ IsEnabledBegin
    \/ IsEnabledEnd
    \/ LimiterBegin
    \/ \E overshoot \in SpecOvershoot : LimiterSleep(overshoot)
    \/ LimiterRecord
    \/ ReaderNext

Spec == Init /\ [][Next]_vars

\* The periods of the limit under SpecPacing and SpecSleep.
PacingPeriods == { 2, 3 }

\* The pacing context and the reader with the configuration at rest: the
\* limit was resolved from the settings by a first configuration tick, and
\* nothing changes them afterwards.
PacingInit ==
    /\ settings \in { Auto } \cup { Manual(p) : p \in PacingPeriods }
    /\ proxy_changed = FALSE
    /\ rate_changed = FALSE
    /\ winit_changed = FALSE
    /\ monitors = {}
    /\ proxy = [ value |-> settings, lock |-> "free" ]
    /\ limit = [ value |-> IF settings.tag = "Manual" THEN settings.t ELSE 0,
                 lock |-> "free" ]
    /\ config_pc = [ proxy |-> "idle", rate |-> "idle" ]
    /\ stats = FramePaceStats_new
    /\ reader = "none"
    /\ elapsed = 0
    /\ frame_present = 0
    /\ pc = "render"
    /\ frame = NoFrame
    /\ panicked = FALSE
    /\ frames = 0
    /\ changes = IF settings.tag = "Manual" THEN 1 ELSE 0
    /\ hist = [ NoHist EXCEPT !.rate_runs = 1, !.proxy_runs = 1 ]

PacingNext ==
    \/ /\ frames < MaxFrames
       /\ \E work \in 1..MaxWork, present \in 0..MaxPresent : RenderFrame(work, present)
    \/ IsEnabledBegin
    \/ IsEnabledEnd
    \/ LimiterBegin
    \/ \E overshoot \in 0..MaxOvershoot : LimiterSleep(overshoot)
    \/ LimiterRecord
    \/ ReaderNext

SpecPacing == PacingInit /\ [][PacingNext]_vars

\* A steady run: a Manual limit, work shorter than the limit, no time spent
\* presenting, and a spin_sleep that sleeps the requested duration exactly;
\* the diagnostics reader runs alongside.
SteadyInit ==
    /\ PacingInit
    /\ settings.tag = "Manual"

SteadyNext ==
    \/ /\ frames < MaxFrames
       /\ \E work \in 1..MaxWork : work < limit.value /\ RenderFrame(work, 0)
    \/ IsEnabledBegin
    \/ IsEnabledEnd
    \/ LimiterBegin
    \/ LimiterSleep(0)
    \/ LimiterRecord
    \/ ReaderNext

SpecSteady == SteadyInit /\ [][SteadyNext]_vars

\* A run with a systematic overshoot and no lock contention: a Manual limit,
\* no time spent presenting, work that leaves an ideal sleep of more than
\* twice the overshoot, and a spin_sleep that returns MaxOvershoot late
\* every time.
\* The reader takes and drops its lock between the iterations only.
DriftPeriods == { 4, 5, 6, 7, 8 }

DriftInit ==
    /\ settings \in { Manual(p) : p \in DriftPeriods }
    /\ proxy_changed = FALSE
    /\ rate_changed = FALSE
    /\ winit_changed = FALSE
    /\ monitors = {}
    /\ proxy = [ value |-> settings, lock |-> "free" ]
    /\ limit = [ value |-> settings.t, lock |-> "free" ]
    /\ config_pc = [ proxy |-> "idle", rate |-> "idle" ]
    /\ stats = FramePaceStats_new
    /\ reader = "none"
    /\ elapsed = 0
    /\ frame_present = 0
    /\ pc = "render"
    /\ frame = NoFrame
    /\ panicked = FALSE
    /\ frames = 0
    /\ changes = 1
    /\ hist = [ NoHist EXCEPT !.rate_runs = 1, !.proxy_runs = 1 ]

DriftNext ==
    \/ /\ reader = "none"
       /\ \/ /\ frames < DriftFrames
             /\ \E work \in 1..MaxWork :
                    /\ limit.value - work > 2 * MaxOvershoot
                    /\ RenderFrame(work, 0)
          \/ IsEnabledBegin
          \/ IsEnabledEnd
          \/ LimiterBegin
          \/ LimiterSleep(MaxOvershoot)
          \/ LimiterRecord
    \/ /\ pc = "render"
       /\ ReaderNext

SpecDrift == DriftInit /\ [][DriftNext]_vars

\* A switch to Off in mid-run: a Manual limit is in force and a frame has
\* been recorded on target under it when the user sets the limiter Off; no
\* configuration system has run since.
SwitchInit ==
    /\ \E p \in PacingPeriods :
          /\ proxy = [ value |-> Manual(p), lock |-> "free" ]
          /\ limit = [ value |-> p, lock |-> "free" ]
          /\ stats = [ FramePaceStats_new EXCEPT !.frametime_record = << p >>,
                                                  !.target_delta_record = << 0 >>,
                                                  !.last_app_time = 1 ]
    /\ settings = Off
    /\ proxy_changed = TRUE
    /\ rate_changed = TRUE
    /\ winit_changed = FALSE
    /\ monitors = {}
    /\ config_pc = [ proxy |-> "idle", rate |-> "idle" ]
    /\ reader = "none"
    /\ elapsed = 0
    /\ frame_present = 0
    /\ pc = "render"
    /\ frame = NoFrame
    /\ panicked = FALSE
    /\ frames = 1
    /\ changes = 2
    /\ hist = NoHist

\* With the limiter Off get_display_refresh_rate returns before its try_lock.
SwitchNext ==
    \/ UpdateProxyBegin
    \/ UpdateProxyEnd
    \/ GetRateBegin
    \/ /\ frames < MaxFrames
       /\ \E work \in 1..MaxWork, present \in SpecPresent : RenderFrame(work, present)
    \/ IsEnabledBegin
    \/ IsEnabledEnd
    \/ LimiterBegin
    \/ \E overshoot \in SpecOvershoot : LimiterSleep(overshoot)
    \/ LimiterRecord
    \/ ReaderNext

SpecSwitch == SwitchInit /\ [][SwitchNext]_vars

\* The user sets Manual periods, the zero Duration among them (Manual takes
\* any Duration, and from_framerate of an infinite rate gives zero), while
\* the pacing context runs.
UserPeriods == { 0 } \cup PacingPeriods

ManualNext ==
    \/ \E p \in UserPeriods : UserSetLimiter(Manual(p))
    \/ UpdateProxyBegin
    \/ UpdateProxyEnd
    \/ GetRateBegin
    \/ GetRateEnd
    \/ /\ frames < SpecFrames
       /\ \E work \in SpecWork, present \in SpecPresent : RenderFrame(work, present)
    \/ IsEnabledBegin
    \/ IsEnabledEnd
    \/ LimiterBegin
    \/ \E overshoot \in SpecOvershoot : LimiterSleep(overshoot)
    \/ LimiterRecord

SpecManual == PacingInit /\ [][ManualNext]_vars

\* get_requested_sleep_duration as a function of its inputs: framerate_limiter
\* is about to run on any history of deviations, any stored adjustment, any
\* limit and any work time, and runs up to its sleep.
RECURSIVE SeqsUpTo(_, _)
SeqsUpTo(S, n) ==
    IF n = 0 THEN { << >> }
    ELSE LET shorter == SeqsUpTo(S, n - 1)
         IN  shorter \cup { Append(q, x) : q \in shorter, x \in S }

SleepInit ==
    /\ settings \in { Auto } \cup { Manual(p) : p \in PacingPeriods }
    /\ proxy_changed = FALSE
    /\ rate_changed = FALSE
    /\ winit_changed = FALSE
    /\ monitors = {}
    /\ proxy = [ value |-> settings, lock |-> "free" ]
    /\ limit = [ value |-> IF settings.tag = "Manual" THEN settings.t ELSE 0,
                 lock |-> "free" ]
    /\ config_pc = [ proxy |-> "idle", rate |-> "idle" ]
    /\ \E deltas \in SeqsUpTo({ as_secs_f64(d) : d \in (0 - MaxDelta)..MaxDelta },
                               max_frame_records),
          adjustment \in (0 - MaxAdjustment)..MaxAdjustment :
            stats = [ last_frame_present_time |-> 0,
                      last_app_time           |-> 0,
                      frametime_record        |-> [ i \in 1..Len(deltas) |-> 1 ],
                      target_delta_record     |-> deltas,
                      target_delta_sum        |-> SumSeq(deltas),
                      last_sleep_adjustment   |-> adjustment ]
    /\ reader \in { "none", "target_delta_record" }
    /\ elapsed \in 0..MaxElapsed
    /\ frame_present = 0
    /\ pc = "limiter"
    /\ frame = NoFrame
    /\ panicked = FALSE
    /\ frames = 0
    /\ changes = 0
    /\ hist = NoHist

SleepNext == LimiterBegin

SpecSleep == SleepInit /\ [][SleepNext]_vars

C2_FreshAfterOneTick ==
    ( /\ hist.rate_runs = 2
      /\ config_pc.rate = "idle"
      /\ new_frametime(settings, monitors) # None )
    => limit.value = new_frametime(settings, monitors)

\* C3: with the settings' limiter Off, a pacing iteration that starts after
\* the configuration tick that follows the change does not sleep.  Stated in
\* the form most favourable to the code: the iteration started after a first
\* tick of update_proxy_resources since the change and a later one that
\* found the lock free.
C3_NoSleepWhenOff ==
    ( /\ hist.off_at_start
      /\ settings = Off
      /\ pc = "sleep" )
    => frame.sleep_duration = 0

\* C4: with the limit at zero (no period resolved yet) a pacing iteration is
\* skipped whole: no step of framerate_limiter sleeps, and none changes a
\* field of FramePaceStats.
C4_ZeroLimitSkips ==
    [][ ( /\ limit.value = 0
          /\ pc \in { "limiter", "sleep", "record" } )
        => ( /\ stats' = stats
             /\ elapsed' \in { elapsed, 0 } ) ]_vars

\* C5: whatever the limit T, the history of deviations and the stored
\* adjustment, the adjustment get_requested_sleep_duration returns lies
\* between -T and T.
C5_AdjustmentWithinLimit ==
    pc = "sleep" =>
        /\ frame.sleep_adjustment >= 0 - limit.value * F64Unit
        /\ frame.sleep_adjustment <= limit.value * F64Unit

\* The sum of the terms is beyond T and the adjustment returned is T.
C5_Witness ==
    /\ pc = "sleep"
    /\ limit.value > 0
    /\ raw_adjustment(stats, HeldByReader) > limit.value * F64Unit
    /\ frame.sleep_adjustment = limit.value * F64Unit

\* C6: the sleep requested is clamp(ideal_sleep - adjustment, 0, T) with
\* ideal_sleep = max(0, T - work time), to the nearest tick of a Duration;
\* it is never negative and never longer than T.
C6_SleepIsClamped ==
    pc = "sleep" =>
        LET T == limit.value * F64Unit
            ideal_sleep == Max(0, limit.value - frame.time_spent_by_app) * F64Unit
            wanted == Min(Max(ideal_sleep - frame.sleep_adjustment, 0), T)
            got == frame.sleep_duration * F64Unit
        IN  /\ 2 * (got - wanted) <= F64Unit
            /\ 2 * (wanted - got) <= F64Unit
            /\ frame.sleep_duration >= 0
            /\ frame.sleep_duration <= limit.value

\* Both ends of the clamp act: a sleep of T asked for with a negative
\* adjustment and some work done.
C6_Witness ==
    /\ pc = "sleep"
    /\ frame.time_spent_by_app > 0
    /\ frame.time_spent_by_app < limit.value
    /\ frame.sleep_adjustment < 0 - frame.time_spent_by_app * F64Unit
    /\ frame.sleep_duration = limit.value

\* The pacing context is about to try a lock that the configuration context
\* holds: the limit in framerate_limiter, or the limiter mode in is_enabled
\* while the mode it guards is an enabled one.
LimitContended == pc = "limiter" /\ limit.lock = "config"
ProxyContended ==
    pc = "run_if" /\ proxy.lock = "config" /\ Limiter_is_enabled(proxy.value)

C8_NobodyWaits ==
    ~panicked =>
        /\ pc = "run_if" => ENABLED IsEnabledBegin
        /\ pc = "is_enabled" => ENABLED IsEnabledEnd
        /\ pc = "limiter" => ENABLED LimiterBegin
        /\ pc = "sleep" => ENABLED LimiterSleep(0)
        /\ pc = "record" => ENABLED LimiterRecord
        /\ config_pc.proxy = "idle" => ENABLED UpdateProxyBegin
        /\ config_pc.proxy = "locked" => ENABLED UpdateProxyEnd
        /\ config_pc.rate = "idle" => ENABLED GetRateBegin
        /\ config_pc.rate = "locked" => ENABLED GetRateEnd
        /\ reader = "none" => \A m \in ReaderLocks : ENABLED ReaderLock(m)
        /\ reader # "none" => ENABLED ReaderUnlock

\* The reader holds a stats mutex that add_frame_stats is about to try, the
\* pacing context holds the limit that get_display_refresh_rate is about to
\* try, and update_proxy_resources holds the limiter mode.
C8_Witness ==
    /\ pc = "sleep"
    /\ reader # "none"
    /\ limit.lock = "pacing"
    /\ config_pc = [ proxy |-> "locked", rate |-> "idle" ]
    /\ rate_changed
    /\ new_frametime(settings, monitors) # None

\* C9: no pacing iteration is fatal to the host: whatever the limit, the
\* work time, the frame-present duration and the overshoot of the sleep,
\* add_frame_stats does not reach its panic.
C9_NeverPanics == ~panicked

\* C10: in Auto mode with displays to go by, the period that
\* get_display_refresh_rate resolves and is about to store is that of the
\* fastest display: the least period, that of the greatest refresh rate.
C10_FastestDisplay ==
    ( /\ config_pc.rate = "locked"
      /\ settings = Auto
      /\ monitors # {} )
    => new_frametime(settings, monitors)
           = SetMin({ frametime_of_rate(r) : r \in monitors })


\* C11: in Auto mode a configuration tick whose refresh-rate query yields
\* nothing (no monitor) leaves the limit as it was, and once the query
\* yields a period the limit becomes that period.  The second half is stated
\* in the form most favourable to the code: after a first tick of
\* get_display_refresh_rate since the monitors appeared and a later one that
\* found the lock free.
C11_NoneKeepsThenAdopts ==
    /\ [][ (settings = Auto /\ monitors = {} /\ monitors' = {})
           => limit'.value = limit.value ]_vars
    /\ []( ( /\ settings = Auto
             /\ monitors # {}
             /\ hist.rate_runs = 2
             /\ config_pc.rate = "idle" )
           => limit.value = detect_frametime(monitors) )


\* C12: whenever a reader can take the frametime_record lock,
\* get_avg_frame_time returns the mean of the frame times recorded (their
\* sum over their number, truncated as a Duration is), and zero when there
\* is none.
C12_AvgIsMean ==
    pc # "record" =>
        get_avg_frame_time(stats, {}) =
            IF stats.frametime_record = << >> THEN 0
            ELSE SumSeq(stats.frametime_record) \div Len(stats.frametime_record)


\* C13: in a steady run, once frametime_record holds max_frame_records
\* samples, get_avg_frame_time is within 1% of the limit whenever a reader
\* can take the lock, and stays so as older samples are evicted.
C13_AvgAtTarget ==
    ( /\ Len(stats.frametime_record) = max_frame_records
      /\ pc # "record" )
    => LET avg == get_avg_frame_time(stats, {})
       IN  /\ 100 * (avg - limit.value) <= limit.value
           /\ 100 * (limit.value - avg) <= limit.value

\* The history is full, a sample has been evicted from it, and the frames
\* recorded had work to do and a sleep to make up the period.
C13_Witness ==
    /\ frames > max_frame_records
    /\ Len(stats.frametime_record) = max_frame_records
    /\ stats.last_app_time > 0
    /\ stats.last_app_time < limit.value
    /\ pc = "render"


C15_OffRecordsOneSample ==
    [][ ( /\ pc = "is_enabled"
          /\ proxy.value = Off
          /\ frames = 1
          /\ pc' = "render" )
        => ( /\ frames' = 2
             /\ get_last_target_delta(stats', {})
                    = as_secs_f64(elapsed) - as_secs_f64(limit.value) ) ]_vars


\* C16: a Manual limiter of period zero is never adopted as the limit: while
\* the settings hold it, a step leaves the limit as it was or leaves it
\* positive (a clamp to a least period).
C16_ZeroNeverAdopted ==
    [][ settings = Manual(0)
        => ( \/ limit'.value = limit.value
             \/ limit'.value > 0 ) ]_vars


\* C17: with no stats lock contended, the adjustment an iteration computes
\* is clamp(previous + Kp * last deviation + Ki * deviation sum
\* + Kd * last deviation delta, -T, T) on the history as the last record
\* left it; previous is 0 before any record, and each record stores the
\* adjustment its iteration computed.
C17_AdjustmentFormula ==
    /\ [](frames = 0 => stats.last_sleep_adjustment = 0)
    /\ [][ /\ (pc = "limiter" /\ pc' = "sleep" /\ reader = "none")
              => LET r == stats.target_delta_record
                     n == Len(r)
                     last_deviation == IF n = 0 THEN 0 ELSE r[n]
                     last_deviation_delta == IF n < 2 THEN 0 ELSE r[n] - r[n - 1]
                     T == as_secs_f64(limit.value)
                     sum == stats.last_sleep_adjustment
                                + (FRAMEPACE_PID_KP * last_deviation) \div F64Unit
                                + (FRAMEPACE_PID_KI * stats.target_delta_sum) \div F64Unit
                                + (FRAMEPACE_PID_KD * last_deviation_delta) \div F64Unit
                 IN  frame'.sleep_adjustment =
                         IF sum < 0 - T THEN 0 - T ELSE IF sum > T THEN T ELSE sum
           /\ (pc = "record" /\ pc' = "render")
              => stats'.last_sleep_adjustment = frame.sleep_adjustment ]_vars

\* An iteration after two records has computed an adjustment in which the
\* carried adjustment, the proportional term and the integral term all
\* count, and which the clamp leaves as it is.
C17_Witness ==
    /\ pc = "sleep"
    /\ frames >= 2
    /\ stats.last_sleep_adjustment # 0
    /\ get_last_target_delta(stats, {}) # 0
    /\ stats.target_delta_sum # 0
    /\ frame.sleep_adjustment =
           stats.last_sleep_adjustment
               + get_last_target_delta(stats, {})
               + stats.target_delta_sum \div F64Unit
    /\ frame.sleep_adjustment < as_secs_f64(limit.value)
    /\ frame.sleep_adjustment > 0 - as_secs_f64(limit.value)


\* C18: the deviation add_frame_stats records for a frame is the frame's
\* actual total frametime minus the target period, whatever the work time
\* and the time spent presenting the frame.
C18_DeviationIsTotalMinusTarget ==
    [][ (pc = "record" /\ pc' = "render")
            => get_last_target_delta(stats', {})
                   = as_secs_f64(elapsed) - as_secs_f64(limit.value) ]_vars


\* C19: get_last_target_delta_diff returns 0 while the deviation history
\* holds fewer than 2 samples, whatever the single sample is, and otherwise
\* the difference between the two most recent samples.
C19_DiffZeroBelowTwoSamples ==
    LET r == stats.target_delta_record
        n == Len(r)
        d == get_last_target_delta_diff(stats, {})
    IN  /\ n < 2 => d = 0
        /\ n >= 2 => d \in { r[n - 1] - r[n], r[n] - r[n - 1] }


\* C20: after k records frametime_record and target_delta_record each hold
\* min(k, max_frame_records) entries, and each record leaves in them the
\* last max_frame_records of the old entries followed by the new sample:
\* insertion order, the oldest evicted first.
C20_MostRecentSamples ==
    /\ [](LET n == IF frames < max_frame_records THEN frames ELSE max_frame_records
          IN  /\ Len(stats.frametime_record) = n
              /\ Len(stats.target_delta_record) = n)
    /\ [][ (pc = "record" /\ pc' = "render")
             => LET times == Append(stats.frametime_record, elapsed)
                    deltas == Append(stats.target_delta_record,
                                     delta_from_target(limit.value, frame_present,
                                                       frame.time_spent_by_app, elapsed))
                    first == IF Len(times) > max_frame_records
                             THEN Len(times) - max_frame_records + 1
                             ELSE 1
                IN  /\ stats'.frametime_record = SubSeq(times, first, Len(times))
                    /\ stats'.target_delta_record = SubSeq(deltas, first, Len(deltas)) ]_vars

\* More frames were recorded than the histories hold: the oldest sample is
\* gone and the samples kept differ from one another.
C20_Witness ==
    /\ frames > max_frame_records
    /\ Len(stats.frametime_record) = max_frame_records
    /\ stats.frametime_record[1] # stats.frametime_record[max_frame_records]
    /\ stats.target_delta_record[1] # stats.target_delta_record[max_frame_records]


\* C21: every iteration of the pacing context ends with FrameTimer reset to
\* now, the iterations skipped because the limiter is Off or a lock is
\* contended included: the elapsed time is 0 when the next frame starts.
C21_TimerResetEveryIteration ==
    [][ (pc # "render" /\ pc' = "render" /\ ~panicked') => elapsed' = 0 ]_vars


\* C22: a configuration tick that resolves Off leaves the shared target
\* period as it was, and the period stays the one stored before the switch
\* until a tick resolves a period from settings that are not Off.
C22_OffKeepsLimit ==
    [][ /\ (settings = Off /\ settings' = Off) => limit'.value = limit.value
        /\ limit'.value # limit.value
              => /\ settings # Off
                 /\ new_frametime(settings, monitors) # None
                 /\ limit'.value = new_frametime(settings, monitors) ]_vars

\* get_display_refresh_rate has run on settings Off, with the lock free,
\* while the limit held a period resolved before the switch.
C22_Witness ==
    /\ settings = Off
    /\ hist.rate_runs = 2
    /\ config_pc.rate = "idle"
    /\ limit.lock = "free"
    /\ limit.value > 0


\* C23: add_frame_stats is all-or-nothing: with one of its six mutexes held
\* by the reader no stats field changes; otherwise the last present time,
\* the last app time, both histories, the deviation sum and the last
\* adjustment are updated together, and nothing else writes the stats.
\* Hence the two histories have the same length in every state.
C23_AllOrNothing ==
    /\ [](Len(stats.frametime_record) = Len(stats.target_delta_record))
    /\ [][ /\ (pc = "sleep" /\ pc' # "sleep" /\ reader # "none") => stats' = stats
           /\ stats' # stats => (pc = "record" /\ reader = "none")
           /\ (pc = "record" /\ pc' = "render")
                 => LET fr == stats'.frametime_record
                        dr == stats'.target_delta_record
                    IN  /\ stats'.last_frame_present_time = frame_present
                        /\ stats'.last_app_time = frame.time_spent_by_app
                        /\ stats'.last_sleep_adjustment = frame.sleep_adjustment
                        /\ fr # << >> /\ fr[Len(fr)] = elapsed
                        /\ dr # << >>
                        /\ dr[Len(dr)] =
                               delta_from_target(limit.value, frame_present,
                                                 frame.time_spent_by_app, elapsed)
                        /\ stats'.target_delta_sum = SumSeq(dr) ]_vars

\* An iteration has ended on a failed try_lock of add_frame_stats: a frame
\* was measured, the reader holds a stats mutex, and the stats are those of
\* FramePaceStats::new.
C23_Witness ==
    /\ pc = "render"
    /\ frames = 0
    /\ frame_present > 0
    /\ elapsed = 0
    /\ reader # "none"
    /\ stats = FramePaceStats_new


\* C24: the pacing context holds the FrametimeLimit mutex for the read of
\* the value only and never while it sleeps: during the pacing sleep a
\* configuration write finds the mutex free.
C24_LimitFreeDuringSleep ==
    (pc = "sleep" /\ frame.sleep_duration > 0) => try_lock_ok(limit.lock)


\* Frames that may run over budget: a Manual limit, work of up to
\* MaxElapsed ticks, any present time and a sleep that may overshoot.
BudgetNext ==
    \/ /\ frames < MaxFrames
       /\ \E work \in 1..MaxElapsed, present \in 0..MaxPresent : RenderFrame(work, present)
    \/ IsEnabledBegin
    \/ IsEnabledEnd
    \/ LimiterBegin
    \/ \E overshoot \in 0..MaxOvershoot : LimiterSleep(overshoot)
    \/ LimiterRecord

SpecBudget == SteadyInit /\ [][BudgetNext]_vars

\* C25: when the measured work time is at least the target period, the
\* sleep get_requested_sleep_duration requests is 0, whatever the history
\* of deviations and the stored last adjustment.
C25_NoSleepOverBudget ==
    (pc = "sleep" /\ frame.time_spent_by_app >= limit.value)
        => frame.sleep_duration = 0

====
